---- MODULE Spec2Model ----
(***************************************************************************)
(* optimize-images.js: the batch driver (main / processOne) and the        *)
(* size-constrained encoding search (findBestEncode) it runs per image.    *)
(* One action per stretch of code between two awaits or loop tests.        *)
(***************************************************************************)
EXTENDS Integers, Sequences, FiniteSets, TLC

\* ------------------------------------------------------------------ bounds
\* Files the directory walk yields at most.
MaxFiles == 2
\* MAX_Q ranges over MIN_Q .. MIN_Q + MaxQSpan.
MaxQSpan == 3
\* MAX_DOWNSCALES ranges over 0 .. MaxDowns.
MaxDowns == 1
\* ------------------------------------------------------- program constants
\* The floor of the descent, Math.max(320, ...).
FloorWidth == 320
\* TARGET_BYTES = Math.max(1, target) * 1024.
BytesPerKB == 1024

\* --------------------------------------------------------------- inputs
\* --target values (KB), --maxWidth values, --minQ values (the default),
\* --scaleStep values (the default 0.9, as the fraction num/den).
TargetKBs == {21}
MaxWidths == {250, 360}
MinQs == {65}
ScaleSteps == {<<9, 10>>}
\* meta.width of a source; 0 stands for a missing width (undefined).
MetaWidths == {0, 200, 324}
\* The size factor k of a source under the linear encoder.
SizeFactors == {1, 2}
\* How the encoder behaves in a run: "linear" is the deterministic encoder with
\* size k * width * quality, "any" returns any length or fails, per call.
EncoderKinds == {"linear", "any"}

VARIABLES
  cfg,        \* the run's configuration (module-level constants of the script)
  encoder,    \* the encoder's behaviour in this run
  pc,         \* the position of main / processOne / findBestEncode
  todo,       \* number of paths the directory walk has yet to yield
  images,     \* number of images handed to processOne
  count,      \* main's count
  file,       \* the image processOne is working on
  current,    \* what has become of that image so far
  reported,   \* the errors main's catch block has reported, in order
  width, attempt, best, lo, hi, bestLocal,   \* findBestEncode's locals
  pending,    \* the encoder invocation in flight, or NoCall
  outcome,    \* the value findBestEncode returned to processOne
  err,        \* the exception on its way to main's catch block, or "none"
  probes,     \* the encoder invocations of the current search, in order
  widths,     \* the widths at which the current search ran the binary search
  lastRun,    \* the previous completed search under a deterministic encoder
  rejected    \* an encoder invocation of the current image has rejected

vars == <<cfg, encoder, pc, todo, images, count, file, current, reported, width, attempt, best,
          lo, hi, bestLocal, pending, outcome, err, probes, widths, lastRun,
          rejected>>

locals == <<width, attempt, best, lo, hi, bestLocal>>

\* ------------------------------------------------------------ configuration
TARGET_BYTES == cfg.TARGET_BYTES
MAX_WIDTH == cfg.MAX_WIDTH
MIN_Q == cfg.MIN_Q
MAX_Q == cfg.MAX_Q
MAX_DOWNSCALES == cfg.MAX_DOWNSCALES
SCALE_STEP == cfg.SCALE_STEP
REPLACE == cfg.REPLACE
DELETE_ORIG == cfg.DELETE_ORIG

Configs ==
  { [TARGET_BYTES |-> t * BytesPerKB, MAX_WIDTH |-> mw, MIN_Q |-> q,
     MAX_Q |-> q + s, MAX_DOWNSCALES |-> d, SCALE_STEP |-> st,
     REPLACE |-> r, DELETE_ORIG |-> r] :   \* both flags, or neither
      t \in TargetKBs, mw \in MaxWidths, q \in MinQs, s \in 0..MaxQSpan,
      d \in 0..MaxDowns, st \in ScaleSteps, r \in BOOLEAN }

\* ------------------------------------------------------------------ values
\* null / undefined.
Null == [null |-> TRUE]
NoCall == [call |-> FALSE]
NoFile == [valid |-> FALSE]

Min(a, b) == IF a <= b THEN a ELSE b
Max(a, b) == IF a >= b THEN a ELSE b

\* Math.round((lo + hi) / 2) for lo + hi >= 0: halves round up.
Mid(l, h) == (l + h + 1) \div 2

\* Math.floor(w * SCALE_STEP).
Scaled(w) == (w * SCALE_STEP[1]) \div SCALE_STEP[2]

\* Math.min(metaWidth || MAX_WIDTH, MAX_WIDTH).
StartWidth(metaWidth) ==
  Min(IF metaWidth = 0 THEN MAX_WIDTH ELSE metaWidth, MAX_WIDTH)

\* Math.max(320, Math.floor((width || MAX_WIDTH) * SCALE_STEP)).
NextWidth(w) == Max(FloorWidth, Scaled(IF w = 0 THEN MAX_WIDTH ELSE w))

\* best.bestEffort read as a condition: a missing field is undefined (falsy).
BestEffort(r) == IF "bestEffort" \in DOMAIN r THEN r.bestEffort ELSE FALSE

\* ----------------------------------------------------------------- encoder
\* resize({ width, withoutEnlargement: true }): the encoded width is the
\* requested one, clipped to the source's own width when that is known.
EncodedWidth(f, w) == IF f.metaWidth = 0 THEN w ELSE Min(w, f.metaWidth)

\* The deterministic synthetic encoder: size = k * width * quality.
LinearSize(f, w, q) == f.k * EncodedWidth(f, w) * q

\* The lengths the encoder may return for (f, w, q) in this run.
EncodeLengths(f, w, q) ==
  IF encoder = "linear" THEN {LinearSize(f, w, q)}
  ELSE {TARGET_BYTES, TARGET_BYTES + 1}

\* Whether the encoder may fail (reject the promise) on a call in this run.
EncodeMayFail == encoder = "any"

\* The buffer of an encode: what was encoded, and its length.
Buffer(f, w, q, len) ==
  [src |-> f.k, w |-> EncodedWidth(f, w), q |-> q, length |-> len]

\* ------------------------------------------------------------------- files
\* What the walk may yield: an image (by extension) whose metadata is readable
\* or not, with its width and size factor.  Under the "any" encoder the size
\* factor plays no part and is 1.
Images ==
  { [valid |-> TRUE, readable |-> TRUE, metaWidth |-> mw, k |-> k] :
      mw \in MetaWidths, k \in IF encoder = "linear" THEN SizeFactors ELSE {1} }
  \cup { [valid |-> TRUE, readable |-> FALSE, metaWidth |-> 0, k |-> 1] }

\* No image has been handed to processOne yet.
NoImage == [readable |-> FALSE, status |-> "none", written |-> FALSE,
            deleted |-> FALSE]

Init ==
  /\ encoder \in EncoderKinds
  /\ cfg \in Configs
  /\ pc = "walk"
  /\ todo \in 1..MaxFiles
  /\ images = 0
  /\ count = 0
  /\ file = NoFile
  /\ current = NoImage
  /\ reported = <<>>
  /\ width = 0 /\ attempt = 0 /\ best = Null
  /\ lo = 0 /\ hi = 0 /\ bestLocal = Null
  /\ pending = NoCall
  /\ outcome = Null
  /\ err = "none"
  /\ probes = <<>>
  /\ widths = <<>>
  /\ lastRun = Null
  /\ rejected = FALSE

\* ------------------------------------------------------------------- main
\* for await (const p of walk(SRC_DIR)): a path without an image extension is
\* passed over.
WalkOther ==
  /\ pc = "walk"
  /\ todo > 0
  /\ todo' = todo - 1
  /\ UNCHANGED <<cfg, encoder, pc, images, count, file, current, reported, locals, pending,
                 outcome, err, probes, widths, lastRun, rejected>>

\* The walk yields an image: processOne(p) runs up to its metadata await.
WalkImage ==
  /\ pc = "walk"
  /\ todo > 0
  /\ \E f \in Images :
       /\ file' = f
       /\ current' = [readable |-> f.readable, status |-> "processing",
                       written |-> FALSE, deleted |-> FALSE]
  /\ todo' = todo - 1
  /\ images' = images + 1
  /\ pc' = "metadata"
  /\ UNCHANGED <<cfg, encoder, count, reported, locals, pending, outcome, err,
                 probes, widths, lastRun, rejected>>

\* The walk is exhausted: main logs the count and ends.
WalkEnd ==
  /\ pc = "walk"
  /\ todo = 0
  /\ pc' = "done"
  /\ UNCHANGED <<cfg, encoder, todo, images, count, file, current, reported, locals, pending,
                 outcome, err, probes, widths, lastRun, rejected>>

\* No try/catch around processOne: the exception ends main's loop.
CatchRethrow ==
  /\ pc = "catch"
  /\ current' = [current EXCEPT !.status = "error"]
  /\ reported' = Append(reported, err)
  /\ err' = "none"
  /\ file' = NoFile
  /\ outcome' = Null
  /\ probes' = <<>>
  /\ widths' = <<>>
  /\ rejected' = FALSE
  /\ pc' = "done"
  /\ UNCHANGED <<cfg, encoder, todo, images, count, locals, pending, lastRun>>

\* catch (e) { console.error(...) }: the image is reported, count is not raised.
Catch ==
  /\ pc = "catch"
  /\ current' = [current EXCEPT !.status = "error"]
  /\ reported' = Append(reported, err)
  /\ err' = "none"
  /\ file' = NoFile
  /\ outcome' = Null
  /\ probes' = <<>>
  /\ widths' = <<>>
  /\ rejected' = FALSE
  /\ pc' = "walk"
  /\ UNCHANGED <<cfg, encoder, todo, images, count, locals, pending, lastRun>>

\* ------------------------------------------------------------- processOne
\* sharp(filePath).metadata() resolves.
MetadataOk ==
  /\ pc = "metadata"
  /\ file.readable
  /\ pc' = "ensureDir"
  /\ UNCHANGED <<cfg, encoder, todo, images, count, file, current, reported, locals, pending,
                 outcome, err, probes, widths, lastRun, rejected>>

\* metadata() rejects: warn, return null; main counts the image.
MetadataFail ==
  /\ pc = "metadata"
  /\ ~file.readable
  /\ current' = [current EXCEPT !.status = "skipped"]
  /\ count' = count + 1
  /\ file' = NoFile
  /\ pc' = "walk"
  /\ UNCHANGED <<cfg, encoder, todo, images, reported, locals, pending, outcome, err,
                 probes, widths, lastRun, rejected>>

\* ensureDir resolves: findBestEncode is called.
EnsureDirOk ==
  /\ pc = "ensureDir"
  /\ pc' = "findBestEncode"
  /\ UNCHANGED <<cfg, encoder, todo, images, count, file, current, reported, locals, pending,
                 outcome, err, probes, widths, lastRun, rejected>>

\* ensureDir rejects: the exception leaves processOne.
EnsureDirFail ==
  /\ pc = "ensureDir"
  /\ err' = "IOError"
  /\ pc' = "catch"
  /\ UNCHANGED <<cfg, encoder, todo, images, count, file, current, reported, locals, pending,
                 outcome, probes, widths, lastRun, rejected>>

\* fs.writeFile(outPath, best.buf) resolves.
WriteOk ==
  /\ pc = "writeFile"
  /\ current' = [current EXCEPT !.written = TRUE]
  /\ pc' = "unlink"
  /\ UNCHANGED <<cfg, encoder, todo, images, count, file, reported, locals, pending,
                 outcome, err, probes, widths, lastRun, rejected>>

\* A rejected write that is swallowed: processOne goes on to the unlink.
WriteFailSwallowed ==
  /\ pc = "writeFile"
  /\ err' = err
  /\ pc' = "unlink"
  /\ UNCHANGED <<cfg, encoder, todo, images, count, file, current, reported, locals, pending,
                 outcome, probes, widths, lastRun, rejected>>

\* fs.writeFile rejects.
WriteFail ==
  /\ pc = "writeFile"
  /\ err' = "IOError"
  /\ pc' = "catch"
  /\ UNCHANGED <<cfg, encoder, todo, images, count, file, current, reported, locals, pending,
                 outcome, probes, widths, lastRun, rejected>>

\* if (REPLACE && DELETE_ORIG) try unlink (a failure is swallowed); then the
\* verdict is logged, processOne returns and main raises count.
Finish ==
  /\ pc = "unlink"
  /\ \E removed \in BOOLEAN :
       /\ removed => REPLACE /\ DELETE_ORIG
       /\ current' = [current EXCEPT !.deleted = removed, !.status = "ok"]
  /\ count' = count + 1
  /\ file' = NoFile
  /\ outcome' = Null
  /\ pc' = "walk"
  /\ UNCHANGED <<cfg, encoder, todo, images, reported, locals, pending, err, probes,
                 widths, lastRun, rejected>>

\* --------------------------------------------------------- findBestEncode
\* attempt kept outside the function: a search starts with the last one's count.
StartSearchKeepAttempt ==
  /\ pc = "findBestEncode"
  /\ width' = StartWidth(file.metaWidth)
  /\ attempt' = attempt
  /\ best' = Null
  /\ probes' = <<>>
  /\ widths' = <<>>
  /\ pc' = "outer"
  /\ UNCHANGED <<cfg, encoder, todo, images, count, file, current, reported, lo, hi, bestLocal,
                 pending, outcome, err, lastRun, rejected>>

\* let width = Math.min(metaWidth || MAX_WIDTH, MAX_WIDTH); attempt = 0; best = null.
StartSearch ==
  /\ pc = "findBestEncode"
  /\ width' = StartWidth(file.metaWidth)
  /\ attempt' = 0
  /\ best' = Null
  /\ probes' = <<>>
  /\ widths' = <<>>
  /\ pc' = "outer"
  /\ UNCHANGED <<cfg, encoder, todo, images, count, file, current, reported, lo, hi, bestLocal,
                 pending, outcome, err, lastRun, rejected>>

\* An outer loop without its round limit: while (true) { ...
BeginRoundUnbounded ==
  /\ pc = "outer"
  /\ lo' = MIN_Q
  /\ hi' = MAX_Q
  /\ bestLocal' = Null
  /\ widths' = Append(widths, width)
  /\ pc' = "inner"
  /\ UNCHANGED <<cfg, encoder, todo, images, count, file, current, reported, width, attempt, best,
                 pending, outcome, err, probes, lastRun, rejected>>

\* while (attempt <= MAX_DOWNSCALES) { let lo = MIN_Q, hi = MAX_Q; bestLocal = null;
BeginRound ==
  /\ pc = "outer"
  /\ attempt <= MAX_DOWNSCALES
  /\ lo' = MIN_Q
  /\ hi' = MAX_Q
  /\ bestLocal' = Null
  /\ widths' = Append(widths, width)
  /\ pc' = "inner"
  /\ UNCHANGED <<cfg, encoder, todo, images, count, file, current, reported, width, attempt, best,
                 pending, outcome, err, probes, lastRun, rejected>>

\* The outer loop's test fails: the round limit is exhausted.
ExitRounds ==
  /\ pc = "outer"
  /\ ~(attempt <= MAX_DOWNSCALES)
  /\ pc' = "fallback"
  /\ UNCHANGED <<cfg, encoder, todo, images, count, file, current, reported, locals, pending,
                 outcome, err, probes, widths, lastRun, rejected>>

\* A probe started without await: the loop goes on while the call is in flight.
ProbeCallNoAwait ==
  /\ pc = "inner"
  /\ lo <= hi
  /\ pending' = [width |-> width, quality |-> Mid(lo, hi)]
  /\ probes' = Append(probes, <<width, Mid(lo, hi)>>)
  /\ pc' = "inner"
  /\ UNCHANGED <<cfg, encoder, todo, images, count, file, current, reported, locals, outcome, err,
                 widths, lastRun, rejected>>

\* while (lo <= hi) { mid = Math.round((lo + hi) / 2); encodeWebPBuffer(inputPath, width, mid)
ProbeCall ==
  /\ pc = "inner"
  /\ lo <= hi
  /\ pending' = [width |-> width, quality |-> Mid(lo, hi)]
  /\ probes' = Append(probes, <<width, Mid(lo, hi)>>)
  /\ pc' = "encode"
  /\ UNCHANGED <<cfg, encoder, todo, images, count, file, current, reported, locals, outcome, err,
                 widths, lastRun, rejected>>

\* A budget test that lets one byte too many through.
FitsOffByOne(len) == len <= TARGET_BYTES + 1

\* buf.length <= TARGET_BYTES
Fits(len) == len <= TARGET_BYTES

\* A raise of the floor that jumps over the next quality.
RaiseLoSkip(mid) == mid + 2

\* A raise of the floor that stops short of the probed quality.
RaiseLoBelow(mid) == mid - 1

\* lo = mid + 1
RaiseLo(mid) == mid + 1

\* A lowering of the ceiling that jumps over the next quality.
LowerHiSkip(mid) == mid - 2

\* A lowering of the ceiling that keeps the probed quality in range.
LowerHiStay(mid) == mid

\* hi = mid - 1
LowerHi(mid) == mid - 1

\* The probe resolves with buf: record it and raise lo, or lower hi.
ProbeReturn ==
  /\ pc = "encode"
  /\ \E len \in EncodeLengths(file, pending.width, pending.quality) :
       LET mid == pending.quality
           buf == Buffer(file, pending.width, mid, len)
       IN IF Fits(len)
          THEN /\ bestLocal' = [buf |-> buf, width |-> width, quality |-> mid,
                                bytes |-> len]
               /\ lo' = RaiseLo(mid)
               /\ hi' = hi
          ELSE /\ hi' = LowerHi(mid)
               /\ lo' = lo
               /\ bestLocal' = bestLocal
  /\ pending' = NoCall
  /\ pc' = "inner"
  /\ UNCHANGED <<cfg, encoder, todo, images, count, file, current, reported, width, attempt, best,
                 outcome, err, probes, widths, lastRun, rejected>>

\* A rejected encode swallowed inside the loop, which probes again.
EncodeFailRetry ==
  /\ pc \in {"encode", "encodeFallback"}
  /\ EncodeMayFail
  /\ pending' = NoCall
  /\ err' = err
  /\ rejected' = TRUE
  /\ pc' = "inner"
  /\ UNCHANGED <<cfg, encoder, todo, images, count, file, current, reported, locals, outcome,
                 probes, widths, lastRun>>

\* An encoder invocation (a probe or the fallback encode) rejects: the
\* exception leaves findBestEncode and processOne, uncaught by either.
EncodeFail ==
  /\ pc \in {"encode", "encodeFallback"}
  /\ EncodeMayFail
  /\ pending' = NoCall
  /\ err' = "EncoderFailure"
  /\ rejected' = TRUE
  /\ pc' = "catch"
  /\ UNCHANGED <<cfg, encoder, todo, images, count, file, current, reported, locals, outcome,
                 probes, widths, lastRun>>

\* A descent that forgets to count its rounds: attempt++ is left out.
EndQualitySearchNoCount ==
  /\ pc = "inner"
  /\ ~(lo <= hi)
  /\ IF bestLocal # Null
     THEN /\ best' = bestLocal
          /\ pc' = "fallback"
          /\ UNCHANGED <<width, attempt>>
     ELSE IF NextWidth(width) = width
     THEN /\ pc' = "fallback"
          /\ UNCHANGED <<width, attempt, best>>
     ELSE /\ width' = NextWidth(width)
          /\ pc' = "outer"
          /\ UNCHANGED <<attempt, best>>
  /\ UNCHANGED <<cfg, encoder, todo, images, count, file, current, reported, lo, hi, bestLocal,
                 pending, outcome, err, probes, widths, lastRun, rejected>>

\* The inner loop's test fails.  if (bestLocal) { best = bestLocal; break }
\* else { nextWidth = ...; if (nextWidth === width) break; width = nextWidth; attempt++ }
EndQualitySearch ==
  /\ pc = "inner"
  /\ ~(lo <= hi)
  /\ IF bestLocal # Null
     THEN /\ best' = bestLocal
          /\ pc' = "fallback"
          /\ UNCHANGED <<width, attempt>>
     ELSE IF NextWidth(width) = width
     THEN /\ pc' = "fallback"
          /\ UNCHANGED <<width, attempt, best>>
     ELSE /\ width' = NextWidth(width)
          /\ attempt' = attempt + 1
          /\ pc' = "outer"
          /\ UNCHANGED best
  /\ UNCHANGED <<cfg, encoder, todo, images, count, file, current, reported, lo, hi, bestLocal,
                 pending, outcome, err, probes, widths, lastRun, rejected>>

\* A fallback that encodes at the width the descent reached.
FallbackCallAtReached ==
  /\ pc = "fallback"
  /\ best = Null
  /\ pending' = [width |-> width, quality |-> MIN_Q]
  /\ probes' = Append(probes, <<width, MIN_Q>>)
  /\ pc' = "encodeFallback"
  /\ UNCHANGED <<cfg, encoder, todo, images, count, file, current, reported, locals, outcome, err,
                 widths, lastRun, rejected>>

\* if (!best) encodeWebPBuffer(inputPath, Math.min(metaWidth || MAX_WIDTH, MAX_WIDTH), MIN_Q)
FallbackCall ==
  /\ pc = "fallback"
  /\ best = Null
  /\ pending' = [width |-> StartWidth(file.metaWidth), quality |-> MIN_Q]
  /\ probes' = Append(probes, <<StartWidth(file.metaWidth), MIN_Q>>)
  /\ pc' = "encodeFallback"
  /\ UNCHANGED <<cfg, encoder, todo, images, count, file, current, reported, locals, outcome, err,
                 widths, lastRun, rejected>>

\* A best-effort result that records the width the descent reached.
FallbackWidthReached == width

\* The width recorded in the best-effort result:
\* width: Math.min(metaWidth || MAX_WIDTH, MAX_WIDTH).
FallbackWidth == StartWidth(file.metaWidth)

\* The fallback encode resolves: best = { buf, width, quality: MIN_Q, bytes, bestEffort: true }.
FallbackReturn ==
  /\ pc = "encodeFallback"
  /\ \E len \in EncodeLengths(file, pending.width, pending.quality) :
       best' = [buf |-> Buffer(file, pending.width, pending.quality, len),
                width |-> FallbackWidth, quality |-> MIN_Q, bytes |-> len,
                bestEffort |-> TRUE]
  /\ pending' = NoCall
  /\ pc' = "return"
  /\ UNCHANGED <<cfg, encoder, todo, images, count, file, current, reported, width, attempt, lo, hi,
                 bestLocal, outcome, err, probes, widths, lastRun, rejected>>

\* return best without the fallback, whatever best is.
SkipFallbackAlways ==
  /\ pc = "fallback"
  /\ pc' = "return"
  /\ UNCHANGED <<cfg, encoder, todo, images, count, file, current, reported, locals, pending,
                 outcome, err, probes, widths, lastRun, rejected>>

\* if (!best) is false: the fallback is passed over.
SkipFallback ==
  /\ pc = "fallback"
  /\ best # Null
  /\ pc' = "return"
  /\ UNCHANGED <<cfg, encoder, todo, images, count, file, current, reported, locals, pending,
                 outcome, err, probes, widths, lastRun, rejected>>

\* return best: processOne goes on to fs.writeFile(outPath, best.buf).
ReturnBest ==
  /\ pc = "return"
  /\ outcome' = best
  /\ lastRun' = IF encoder = "linear"
                THEN [file |-> file, outcome |-> best, probes |-> probes]
                ELSE lastRun
  /\ probes' = <<>>
  /\ widths' = <<>>
  /\ pc' = "writeFile"
  /\ UNCHANGED <<cfg, encoder, todo, images, count, file, current, reported, locals,
                 pending, err, rejected>>

\* ----------------------------------------------------------- specification
Next ==
  \/ WalkOther \/ WalkImage \/ WalkEnd \/ Catch
  \/ MetadataOk \/ MetadataFail \/ EnsureDirOk \/ EnsureDirFail
  \/ StartSearch \/ BeginRound \/ ExitRounds \/ ProbeCall \/ ProbeReturn
  \/ EncodeFail \/ EndQualitySearch \/ FallbackCall \/ FallbackReturn
  \/ SkipFallback \/ ReturnBest
  \/ WriteOk \/ WriteFail \/ Finish

Spec == Init /\ [][Next]_vars

\* Every continuation the event loop holds is run, and every awaited promise
\* settles.
FairSpec == Spec /\ WF_vars(Next)

\* ------------------------------------------------------------------ claims
\* The qualities of [MIN_Q, MAX_Q] whose linear size at width w fits the budget.
FittingQualities(f, w) ==
  { q \in MIN_Q..MAX_Q : LinearSize(f, w, q) <= TARGET_BYTES }

\* The largest element of a non-empty set of integers.
Maximum(S) == CHOOSE x \in S : \A y \in S : y <= x

\* findBestEncode has a result in hand: at its return statement, or returned.
Returned(r) == (pc = "return" /\ r = best) \/ (pc \in {"writeFile", "unlink"} /\ r = outcome)

\* C1: whatever the natural width, the configuration and the encoder's
\* behaviour, an outcome findBestEncode returns that is not flagged bestEffort
\* has a byte length of at most targetBytes.
C1_NonBestEffortFits ==
  \A r \in {best, outcome} :
    (Returned(r) /\ ~BestEffort(r)) => r.bytes <= TARGET_BYTES

C1_Witness ==
  /\ encoder = "any"
  /\ pc = "writeFile"
  /\ ~BestEffort(outcome)
  /\ outcome.bytes = TARGET_BYTES
  /\ outcome.width < StartWidth(file.metaWidth)

C3_BinarySearchFindsMaximum ==
  (encoder = "linear" /\ pc = "inner" /\ ~(lo <= hi)) =>
    LET fit == FittingQualities(file, width)
    IN /\ (bestLocal = Null) <=> (LinearSize(file, width, MIN_Q) > TARGET_BYTES)
       /\ fit # {} => /\ bestLocal # Null
                      /\ bestLocal.quality = Maximum(fit)
                      /\ bestLocal.bytes = LinearSize(file, width, Maximum(fit))

C3_Witness ==
  /\ encoder = "linear"
  /\ pc = "inner"
  /\ ~(lo <= hi)
  /\ bestLocal # Null
  /\ MIN_Q < bestLocal.quality
  /\ bestLocal.quality < MAX_Q

\* C4: from one round of the descent to the next the width never increases: the
\* widths at which the binary search runs are strictly decreasing, so a round
\* whose next width would equal the current one is the last.
C4_WidthsStrictlyDecrease ==
  \A i \in 1..(Len(widths) - 1) : widths[i + 1] < widths[i]

\* C5: every encoder invocation of a search, and the width recorded in the
\* outcome it returns, has a width of at most the image's natural width (when
\* the metadata gives one) and at most maxWidth.
WithinLimits(w) ==
  /\ w <= MAX_WIDTH
  /\ file.metaWidth # 0 => w <= file.metaWidth

C5_NeverAboveNaturalOrMaxWidth ==
  /\ \A i \in 1..Len(probes) : WithinLimits(probes[i][1])
  /\ pc = "return" => WithinLimits(best.width)

\* C6: when no encoder invocation fails, a search that has started ends and
\* hands processOne exactly one outcome, qualifying or bestEffort: it neither
\* returns nothing nor runs forever.
C6_SearchEndsWithOutcome ==
  /\ [](pc \in {"writeFile", "unlink"} => outcome # Null)
  /\ (pc = "findBestEncode") ~> ((pc = "writeFile" /\ outcome # Null) \/ rejected)

C6_Witness ==
  /\ pc = "writeFile"
  /\ outcome # Null
  /\ BestEffort(outcome)
  /\ encoder = "any"

\* C7: an encoder invocation that fails, in a probe or in the fallback encode,
\* ends the search for that image at once: the failure reaches main's catch
\* block with no outcome returned and nothing written, the probe is not made
\* again and no other encoder invocation follows for that image.
C7_FailureAbortsSearch ==
  [][ /\ rejected' => /\ pc' = "catch"
                      /\ err' = "EncoderFailure"
                      /\ pending' = NoCall
                      /\ outcome' = Null
                      /\ ~current'.written
                      /\ ~rejected => probes' = probes
      /\ rejected => /\ ~rejected'
                     /\ pc' = "walk"
                     /\ file' = NoFile
                     /\ pending' = NoCall
                     /\ outcome' = Null
                     /\ current' = [current EXCEPT !.status = "error"]
                     /\ reported' = Append(reported, "EncoderFailure") ]_vars

C7_Witness ==
  /\ rejected
  /\ pc = "catch"
  /\ Len(probes) >= 2
  /\ probes[Len(probes)] = <<StartWidth(file.metaWidth), MIN_Q>>
  /\ Len(widths) >= 2

\* The widths the descent visits from width w when no width yields a
\* candidate, with at most n further rounds.
RECURSIVE DescentFrom(_, _)
DescentFrom(w, n) ==
  IF n = 0 \/ NextWidth(w) = w THEN <<w>>
  ELSE <<w>> \o DescentFrom(NextWidth(w), n - 1)

DescentWidths(f) ==
  LET d == DescentFrom(StartWidth(f.metaWidth), MAX_DOWNSCALES)
  IN { d[i] : i \in 1..Len(d) }

SearchedWidths == { widths[i] : i \in 1..Len(widths) }

\* The outcome's bytes are the largest that fit the budget among the pairs of a
\* width of W and a quality of [MIN_Q, MAX_Q].
LargestFitting(r, W) ==
  \A w \in W : \A q \in MIN_Q..MAX_Q :
    LinearSize(file, w, q) <= TARGET_BYTES => LinearSize(file, w, q) <= r.bytes

\* C8 as stated: with the deterministic encoder whose size does not decrease
\* with width or quality, a non-bestEffort outcome is the pair with the largest
\* byte length within the budget among all pairs of a width of the descent's
\* sequence and a quality of [minQuality, maxQuality].  Stated for starting
\* widths of at least the floor, where that sequence does descend.
C8_LargestOfDescent ==
  (/\ encoder = "linear" /\ pc = "return" /\ ~BestEffort(best)
   /\ StartWidth(file.metaWidth) >= FloorWidth) =>
    LargestFitting(best, DescentWidths(file))

\* C8 as amended: ... among all pairs of a width the descent has searched (the
\* outcome's width and the widths tried before it) and a quality of
\* [minQuality, maxQuality].
C8_LargestOfSearched ==
  (encoder = "linear" /\ pc = "return" /\ ~BestEffort(best)) =>
    /\ best.width = widths[Len(widths)]
    /\ best.bytes = LinearSize(file, best.width, best.quality)
    /\ best.bytes <= TARGET_BYTES
    /\ LargestFitting(best, SearchedWidths)

C8_Witness ==
  /\ encoder = "linear"
  /\ pc = "return"
  /\ ~BestEffort(best)
  /\ Len(widths) = 2
  /\ widths[2] < widths[1]
  /\ MIN_Q < best.quality
  /\ best.quality < MAX_Q

\* C9: two searches of the same source (same natural width, same content)
\* under the same configuration and the deterministic encoder return the same
\* outcome (buffer, bytes, width, quality, bestEffort) after the same sequence
\* of (width, quality) probes.
C9_SameInputsSameOutcome ==
  (encoder = "linear" /\ pc = "return" /\ lastRun # Null /\ lastRun.file = file) =>
    /\ lastRun.outcome = best
    /\ lastRun.probes = probes

C9_Witness ==
  /\ encoder = "linear"
  /\ pc = "return"
  /\ lastRun # Null
  /\ lastRun.file = file
  /\ attempt >= 1
  /\ ~BestEffort(best)

\* C10: a failure while one image is processed is reported for that image and
\* does not end the batch: main stops only when the walk is exhausted, every
\* image handed to processOne is either counted or reported, and an image whose
\* metadata was readable ends written or reported.
C10_BatchSurvivesFailure ==
  /\ pc = "done" => todo = 0
  /\ pc \in {"walk", "done"} =>
       /\ images = count + Len(reported)
       /\ current.readable =>
            \/ current.status = "ok" /\ current.written
            \/ current.status = "error" /\ Len(reported) >= 1

C10_Witness ==
  /\ pc = "done"
  /\ images = 2
  /\ reported = <<"EncoderFailure">>
  /\ current.status = "ok"
  /\ current.written

\* The smallest element of a non-empty set of integers.
Minimum(S) == CHOOSE x \in S : \A y \in S : x <= y

\* The sequence of widths of the descent for the image f: the starting width
\* and at most MAX_DOWNSCALES further widths.
DescentSequence(f) == DescentFrom(StartWidth(f.metaWidth), MAX_DOWNSCALES)

\* The positions of DescentSequence(f) whose width fits the budget at MIN_Q.
FittingRounds(f) ==
  { i \in 1..Len(DescentSequence(f)) :
      LinearSize(f, DescentSequence(f)[i], MIN_Q) <= TARGET_BYTES }

\* C11: with the deterministic encoder whose size does not decrease with
\* quality, the outcome is non-bestEffort with width w exactly when w is the
\* first width of the descent sequence (within maxDownscaleRounds + 1 rounds)
\* whose size at minQuality fits the budget; no width after that one is
\* searched or probed; and the outcome is bestEffort exactly when no width of
\* the sequence fits at minQuality.
C11_FirstFittingWidth ==
  (encoder = "linear" /\ pc = "return") =>
    LET d == DescentSequence(file)
        fit == FittingRounds(file)
    IN /\ BestEffort(best) <=> fit = {}
       /\ fit = {} => widths = d
       /\ fit # {} =>
            /\ best.width = d[Minimum(fit)]
            /\ widths = SubSeq(d, 1, Minimum(fit))
            /\ \A j \in 1..Len(probes) :
                 \E i \in 1..Minimum(fit) : probes[j][1] = d[i]

C11_Witness ==
  /\ encoder = "linear"
  /\ pc = "return"
  /\ Len(DescentSequence(file)) = 2
  /\ FittingRounds(file) = {2}
  /\ best.width = DescentSequence(file)[2]
  /\ attempt = 1

\* The encoder invocations of the Quality Search under way, in order: the
\* probes made at the current width.
RoundProbes == SelectSeq(probes, LAMBDA p : p[1] = width)

\* The least e with 2^e >= n, for n >= 1.
CeilLog2(n) == Minimum({ e \in 0..n : 2^e >= n })

\* C12: one Quality Search probes only qualities of [minQuality, maxQuality],
\* probes no quality twice and makes at most
\* ceil(log2(maxQuality - minQuality + 2)) encoder invocations; when
\* minQuality = maxQuality it makes exactly one.
C12_ProbesBounded ==
  pc \in {"inner", "encode"} =>
    /\ \A i \in 1..Len(RoundProbes) :
         /\ RoundProbes[i][2] \in MIN_Q..MAX_Q
         /\ \A j \in 1..Len(RoundProbes) :
              RoundProbes[i][2] = RoundProbes[j][2] => i = j
    /\ Len(RoundProbes) <= CeilLog2(MAX_Q - MIN_Q + 2)
    /\ (pc = "inner" /\ ~(lo <= hi) /\ MIN_Q = MAX_Q) => Len(RoundProbes) = 1

C12_Witness ==
  /\ pc = "inner"
  /\ ~(lo <= hi)
  /\ encoder = "any"
  /\ MAX_Q - MIN_Q = 3
  /\ Len(RoundProbes) = 3
  /\ Len(widths) = 2
  /\ bestLocal # Null

\* C13: for one image the descent runs the Quality Search at least once and at
\* most maxDownscaleRounds + 1 times, each time at another width, and makes at
\* most one further encoder invocation, the fallback encode, after the loop;
\* with maxDownscaleRounds = 0 only the starting width is ever searched.
C13_RoundsBounded ==
  /\ [](pc \in {"fallback", "encodeFallback", "return"} =>
          /\ Len(widths) >= 1
          /\ Len(widths) <= MAX_DOWNSCALES + 1
          /\ \A i, j \in 1..Len(widths) : widths[i] = widths[j] => i = j
          /\ MAX_DOWNSCALES = 0 => widths = <<StartWidth(file.metaWidth)>>)
  /\ [][ /\ pc \in {"fallback", "encodeFallback"} =>
              /\ pc' \in {"encodeFallback", "return", "catch"}
              /\ widths' = widths
         /\ pc = "encodeFallback" => (pc' # "encodeFallback" /\ pending' = NoCall)
         /\ pc = "return" => (pc' = "writeFile" /\ pending' = NoCall)
         /\ (pc = "fallback" /\ pending' # pending) =>
              /\ pc' = "encodeFallback"
              /\ pending' = [width |-> StartWidth(file.metaWidth),
                             quality |-> MIN_Q] ]_vars

C13_Witness ==
  /\ pc = "return"
  /\ MAX_DOWNSCALES = 1
  /\ Len(widths) = 2
  /\ BestEffort(best)
  /\ encoder = "any"
  /\ Len(probes) >= 3

\* C14: whatever the encoder returns, monotone or not, the candidates one
\* Quality Search records in bestLocal one after the other all fit the budget
\* and have strictly increasing quality; every probe is either recorded or
\* lowers the ceiling below its quality, so the candidate the search ends with
\* is the probe of the highest quality that fit at that width.
C14_CandidatesIncrease ==
  /\ [](pc \in {"inner", "encode"} /\ bestLocal # Null =>
          /\ bestLocal.bytes <= TARGET_BYTES
          /\ bestLocal.width = width
          /\ \E i \in 1..Len(RoundProbes) : RoundProbes[i][2] = bestLocal.quality
          /\ \A i \in 1..Len(RoundProbes) :
               RoundProbes[i][2] > bestLocal.quality =>
                 \/ RoundProbes[i][2] > hi
                 \/ pc = "encode" /\ i = Len(RoundProbes))
  /\ [][ (pc = "encode" /\ pc' = "inner") =>
           \/ /\ bestLocal' # bestLocal
              /\ bestLocal'.quality = pending.quality
              /\ bestLocal'.width = pending.width
              /\ bestLocal'.bytes = bestLocal'.buf.length
              /\ bestLocal'.bytes <= TARGET_BYTES
              /\ bestLocal # Null => bestLocal'.quality > bestLocal.quality
              /\ lo' > pending.quality
           \/ /\ bestLocal' = bestLocal
              /\ hi' < pending.quality ]_vars

C14_Witness ==
  /\ encoder = "any"
  /\ pc = "inner"
  /\ ~(lo <= hi)
  /\ bestLocal # Null
  /\ Len(RoundProbes) = 2
  /\ RoundProbes[1][2] < bestLocal.quality
  /\ RoundProbes[2][2] = bestLocal.quality
  /\ bestLocal.quality = MAX_Q

\* C15: at most one encoder invocation is in flight at any time: a probe or
\* the fallback encode starts only when the previous invocation has returned,
\* the search decides nothing while an invocation is in flight, and main hands
\* the next image to processOne only when the current one has completed or
\* failed.
C15_OneInvocationInFlight ==
  /\ [](pending # NoCall <=> pc \in {"encode", "encodeFallback"})
  /\ [][ /\ (pending' # NoCall /\ pending' # pending) => pending = NoCall
         /\ (probes' # probes /\ probes' # <<>>) =>
              /\ pending = NoCall
              /\ pending' = [width |-> probes'[Len(probes')][1],
                             quality |-> probes'[Len(probes')][2]]
         /\ pending # NoCall =>
              /\ pc' \in {"inner", "return", "catch"}
              /\ pending' = NoCall
         /\ images' # images =>
              /\ pc = "walk"
              /\ pending = NoCall
              /\ file = NoFile
              /\ current.status \in {"none", "ok", "skipped", "error"} ]_vars

C15_Witness ==
  /\ pc = "encodeFallback"
  /\ pending # NoCall
  /\ images = 2
  /\ current.status = "processing"
  /\ Len(probes) >= 3

\* The probes of the first round: the longest prefix of probes at the width
\* of the first Quality Search.
RECURSIVE FirstRound(_)
FirstRound(ps) ==
  IF ps = <<>> \/ widths = <<>> \/ Head(ps)[1] # widths[1] THEN <<>>
  ELSE <<Head(ps)>> \o FirstRound(Tail(ps))

C17_WriteThenDelete ==
  /\ [](/\ current.written =>
             \/ pc = "unlink" /\ outcome # Null
             \/ current.status = "ok"
        /\ current.deleted =>
             /\ current.written
             /\ current.status = "ok"
             /\ REPLACE /\ DELETE_ORIG
        /\ (pc = "catch" \/ current.status = "error") =>
             /\ ~current.written
             /\ ~current.deleted)
  /\ [][ /\ (current'.written /\ ~current.written) =>
              /\ pc = "writeFile"
              /\ outcome # Null
              /\ outcome.bytes = outcome.buf.length
         /\ (current'.deleted /\ ~current.deleted) =>
              /\ pc = "unlink"
              /\ current.written ]_vars

C17_Witness ==
  /\ pc = "walk"
  /\ current.written
  /\ current.deleted
  /\ current.status = "ok"
  /\ images = 2
  /\ reported = <<"IOError">>

====
